---------------------------- MODULE Spec2Model ----------------------------
(***************************************************************************)
(* Model of Sources/CSQLite/shim.h: the C wrappers that make SQLite's      *)
(* variadic sqlite3_config / sqlite3_db_config calls usable from Swift.    *)
(*                                                                         *)
(* The state is what the wrappers can reach: the per-connection            *)
(* configuration flags, the process-wide error-log callback, and, for      *)
(* each connection, the position of a wrapper call between its two         *)
(* sqlite3_db_config calls.  Each connection is used by one caller at a    *)
(* time (a wrapper call on a connection returns before the next one on     *)
(* that connection starts); calls on different connections interleave.     *)
(* Everything else the database owns (pages, WAL frames, ReadMark, the     *)
(* snapshot registry, transactions) is no state of the shim: it is kept    *)
(* as one opaque value that only the environment changes.                  *)
(***************************************************************************)
EXTENDS Naturals, FiniteSets

(* ------------------------------ bounds -------------------------------- *)

\* Number of open connections (sqlite3 *db values).
NumConns == 2

\* Number of distinct non-null error-log callbacks a caller may register.
NumCallbacks == 1

\* The opaque storage state takes the values 0..MaxCore.
MaxCore == 1

(* ----------------------------- constants ------------------------------ *)

\* shim.h:11   #if SQLITE_VERSION_NUMBER >= 3029000
MinDQSVersion == 3029000

\* The two builds of the #if: a header older than 3.29.0 and one that is not.
Versions == {MinDQSVersion - 1000, MinDQSVersion}

Conns == 1 .. NumConns

NULL == 0

Callbacks == 1 .. NumCallbacks

\* The options the wrappers pass to sqlite3_db_config.
DqsOps == {"DQS_DDL", "DQS_DML"}

\* The options of a connection: the two DQS flags and, standing for every
\* option the wrappers never name, the foreign-key flag.
DbConfigOps == DqsOps \cup {"ENABLE_FKEY"}

CoreStates == 0 .. MaxCore

VARIABLES
    version,      \* SQLITE_VERSION_NUMBER of the header the shim is built with
    dbflags,      \* dbflags[db][op]: the connection's configuration flags
    pc,           \* pc[db]: position of the wrapper call running on db
    lastCall,     \* lastCall[db]: the wrapper that returned last on db
    logCallback,  \* the callback installed by SQLITE_CONFIG_LOG
    core          \* pages, WAL frames, ReadMark, snapshot registry, transactions

vars == <<version, dbflags, pc, lastCall, logCallback, core>>

(* ------------------------- the SQLite calls --------------------------- *)

\* sqlite3_db_config(db, op, onoff, (void *)0) for a boolean option:
\* onoff > 0 sets the flag and onoff = 0 clears it, on that connection only.
sqlite3_db_config(flags, db, op, onoff) ==
    [flags EXCEPT ![db][op] = IF onoff > 0 THEN 1 ELSE 0]

(* --------------------------- initial state ---------------------------- *)

\* Connections are freshly opened: both DQS flags carry the library's
\* compile-time default (SQLITE_DQS = 0..3, the same for every connection),
\* no wrapper has run, no log callback is installed.
Init ==
    /\ version \in Versions
    /\ \E ddl \in {0, 1}, dml \in {0, 1} :
          dbflags = [db \in Conns |->
                        [op \in DbConfigOps |->
                            IF op = "DQS_DDL" THEN ddl
                            ELSE IF op = "DQS_DML" THEN dml
                            ELSE 0]]
    /\ pc = [db \in Conns |-> "idle"]
    /\ lastCall = [db \in Conns |-> "none"]
    /\ logCallback = NULL
    /\ core = 0

(* ----------------------------- wrappers ------------------------------- *)

\* shim.h:8  sqlite3_config(SQLITE_CONFIG_LOG, callback, 0); the result is
\* dropped.  sqlite3_config installs the callback, or refuses with
\* SQLITE_MISUSE (library already initialised) and changes nothing.
registerErrorLogCallback(callback) ==
    /\ \/ logCallback' = callback
       \/ logCallback' = logCallback
    /\ UNCHANGED <<version, dbflags, pc, lastCall, core>>

\* shim.h:15  first statement of disableDoubleQuotedStringLiterals.
disableDoubleQuotedStringLiterals_DDL(db) ==
    /\ version >= MinDQSVersion
    /\ pc[db] = "idle"
    /\ dbflags' = sqlite3_db_config(dbflags, db, "DQS_DDL", 0)
    /\ pc' = [pc EXCEPT ![db] = "disable_DML"]
    /\ UNCHANGED <<version, lastCall, logCallback, core>>

\* shim.h:16  second statement of disableDoubleQuotedStringLiterals, and return.
disableDoubleQuotedStringLiterals_DML(db) ==
    /\ version >= MinDQSVersion
    /\ pc[db] = "disable_DML"
    /\ dbflags' = sqlite3_db_config(dbflags, db, "DQS_DML", 0)
    /\ pc' = [pc EXCEPT ![db] = "idle"]
    /\ lastCall' = [lastCall EXCEPT ![db] = "disable"]
    /\ UNCHANGED <<version, logCallback, core>>

enableDoubleQuotedStringLiterals_DDL_wrongOp(db) ==
    /\ version >= MinDQSVersion
    /\ pc[db] = "idle"
    /\ dbflags' = sqlite3_db_config(dbflags, db, "ENABLE_FKEY", 1)
    /\ pc' = [pc EXCEPT ![db] = "enable_DML"]
    /\ UNCHANGED <<version, lastCall, logCallback, core>>

\* shim.h:22  first statement of enableDoubleQuotedStringLiterals.
enableDoubleQuotedStringLiterals_DDL(db) ==
    /\ version >= MinDQSVersion
    /\ pc[db] = "idle"
    /\ dbflags' = sqlite3_db_config(dbflags, db, "DQS_DDL", 1)
    /\ pc' = [pc EXCEPT ![db] = "enable_DML"]
    /\ UNCHANGED <<version, lastCall, logCallback, core>>

enableDoubleQuotedStringLiterals_DML_sameOpTwice(db) ==
    /\ version >= MinDQSVersion
    /\ pc[db] = "enable_DML"
    /\ dbflags' = sqlite3_db_config(dbflags, db, "DQS_DDL", 1)
    /\ pc' = [pc EXCEPT ![db] = "idle"]
    /\ lastCall' = [lastCall EXCEPT ![db] = "enable"]
    /\ UNCHANGED <<version, logCallback, core>>

\* shim.h:23  second statement of enableDoubleQuotedStringLiterals, and return.
enableDoubleQuotedStringLiterals_DML(db) ==
    /\ version >= MinDQSVersion
    /\ pc[db] = "enable_DML"
    /\ dbflags' = sqlite3_db_config(dbflags, db, "DQS_DML", 1)
    /\ pc' = [pc EXCEPT ![db] = "idle"]
    /\ lastCall' = [lastCall EXCEPT ![db] = "enable"]
    /\ UNCHANGED <<version, logCallback, core>>

\* shim.h:26  the empty disableDoubleQuotedStringLiterals of the #else branch.
disableDoubleQuotedStringLiterals_noop(db) ==
    /\ version < MinDQSVersion
    /\ pc[db] = "idle"
    /\ lastCall' = [lastCall EXCEPT ![db] = "disable"]
    /\ UNCHANGED <<version, dbflags, pc, logCallback, core>>

\* shim.h:27  the empty enableDoubleQuotedStringLiterals of the #else branch.
enableDoubleQuotedStringLiterals_noop(db) ==
    /\ version < MinDQSVersion
    /\ pc[db] = "idle"
    /\ lastCall' = [lastCall EXCEPT ![db] = "enable"]
    /\ UNCHANGED <<version, dbflags, pc, logCallback, core>>

(* ---------------------------- environment ----------------------------- *)

\* Any step of the storage engine behind the connections (a transaction
\* beginning, writing, committing or rolling back, a checkpoint, a snapshot
\* being taken or freed): the opaque storage state moves to another value.
CoreStep ==
    /\ \E c \in CoreStates : c # core /\ core' = c
    /\ UNCHANGED <<version, dbflags, pc, lastCall, logCallback>>

Next ==
    \/ \E callback \in Callbacks \cup {NULL} : registerErrorLogCallback(callback)
    \/ \E db \in Conns : disableDoubleQuotedStringLiterals_DDL(db)
    \/ \E db \in Conns : disableDoubleQuotedStringLiterals_DML(db)
    \/ \E db \in Conns : enableDoubleQuotedStringLiterals_DDL(db)
    \/ \E db \in Conns : enableDoubleQuotedStringLiterals_DML(db)
    \/ \E db \in Conns : disableDoubleQuotedStringLiterals_noop(db)
    \/ \E db \in Conns : enableDoubleQuotedStringLiterals_noop(db)
    \/ CoreStep

Spec == Init /\ [][Next]_vars

TypeOK ==
    /\ version \in Versions
    /\ dbflags \in [Conns -> [DbConfigOps -> {0, 1}]]
    /\ pc \in [Conns -> {"idle", "disable_DML", "enable_DML"}]
    /\ lastCall \in [Conns -> {"none", "enable", "disable"}]
    /\ logCallback \in Callbacks \cup {NULL}
    /\ core \in CoreStates

(* ------------------------------ claims -------------------------------- *)

\* A step belongs to a wrapper call on db when it moves that call's position
\* or completes it.
WrapperStep(db) == pc'[db] # pc[db] \/ lastCall'[db] # lastCall[db]

\* C7: every step of enableDoubleQuotedStringLiterals(db) or
\* disableDoubleQuotedStringLiterals(db), whatever the storage engine and the
\* other connections are doing, changes nothing but the DQS_DDL / DQS_DML
\* flags of db (and no flag at all in a build against SQLite < 3.29.0): the
\* storage state (pages, WAL frames, ReadMark, snapshot registry,
\* transactions), the log callback and every other option stay as they were.
C7_TogglesLeaveStorageUntouched ==
    [][\A db \in Conns :
          WrapperStep(db) =>
             /\ core' = core
             /\ logCallback' = logCallback
             /\ version' = version
             /\ \A d \in Conns, op \in DbConfigOps :
                   (d # db \/ op \notin DqsOps) => dbflags'[d][op] = dbflags[d][op]
             /\ version < MinDQSVersion => dbflags' = dbflags]_vars

\* C7 witness: a disable call has returned on connection 1 and cleared both
\* flags while the storage state had moved on and connection 2 was inside
\* an enable call.
C7_Witness ==
    /\ version >= MinDQSVersion
    /\ lastCall[1] = "disable"
    /\ pc[1] = "idle"
    /\ dbflags[1]["DQS_DDL"] = 0 /\ dbflags[1]["DQS_DML"] = 0
    /\ pc[2] = "enable_DML"
    /\ core # 0

\* C10: in a build against SQLite >= 3.29.0, once a wrapper call has returned
\* on db and no other is running on it, DQS_DDL = DQS_DML on db, both 1 after
\* enable and both 0 after disable (so after a first call the two flags
\* differ only between the two sqlite3_db_config calls of one wrapper); a
\* wrapper step on db changes no flag of another connection; in a build
\* against SQLite < 3.29.0 no wrapper step changes any flag.
C10_LastCallWins ==
    /\ [](\A db \in Conns :
            (version >= MinDQSVersion /\ pc[db] = "idle" /\ lastCall[db] # "none") =>
               /\ dbflags[db]["DQS_DDL"] = dbflags[db]["DQS_DML"]
               /\ lastCall[db] = "enable" => dbflags[db]["DQS_DDL"] = 1
               /\ lastCall[db] = "disable" => dbflags[db]["DQS_DDL"] = 0)
    /\ [][\A db \in Conns :
            WrapperStep(db) =>
               /\ \A d \in Conns \ {db} : dbflags'[d] = dbflags[d]
               /\ version < MinDQSVersion => dbflags' = dbflags]_vars

\* C10 witness: in one state, the last call on connection 1 was disable and
\* both its flags are 0, while the last call on connection 2 was enable and
\* both its flags are 1.
C10_Witness ==
    /\ version >= MinDQSVersion
    /\ lastCall[1] = "disable" /\ pc[1] = "idle"
    /\ dbflags[1]["DQS_DDL"] = 0 /\ dbflags[1]["DQS_DML"] = 0
    /\ lastCall[2] = "enable" /\ pc[2] = "idle"
    /\ dbflags[2]["DQS_DDL"] = 1 /\ dbflags[2]["DQS_DML"] = 1

=============================================================================
